---- MODULE Spec2Model ----
(***************************************************************************)
(* Model of multiobjective_optimization.py: the main script builds a pyomo *)
(* model, computes the anchor range with get_pareto_min_max_values, runs   *)
(* epsilone_method and weighted_sum, and plots.                            *)
(*                                                                         *)
(* The program counter pc is the source line about to execute; Code maps   *)
(* each statement line to the instruction it holds.  A float is held in    *)
(* fixed point, in units of 1/One.  solver.solve is the external BARON     *)
(* binary: it is modelled by its contract, a global minimiser of the one   *)
(* active objective over the variable domains and active constraints.  The *)
(* objectives of the script are strictly convex and its constraints        *)
(* convex, so a problem that admits a point has one minimiser.  It is      *)
(* found in exact arithmetic: each of x and y by a line search along its   *)
(* axis over the points with coordinates in units of 1/One^2, the other    *)
(* variable eliminated by a line search that goes down to 1/One^4.  The    *)
(* solution loaded into x and y is the real minimiser to within that unit  *)
(* of 1/One^2, and every value read back from the model is the float       *)
(* nearest to the value at the loaded point.                               *)
(***************************************************************************)
EXTENDS Integers, Sequences, FiniteSets, TLC

\* n = 10 (line 16): the number of epsilons
n == 10
\* fixed-point unit: a float v is held as the integer nearest to v * One
One == 10000
\* the feasible set is compared with the documented box at Res points per
\* unit of x and of y
Res == 1
\* the solver's search reaches Margin units beyond the documented box
Margin == 1
\* the anchor solutions of SpecAnchors have coordinates 0, 1/2, ..., MaxAnchor/2
MaxAnchor == 2

-----------------------------------------------------------------------------
(* Exact arithmetic.  A real v is the tuple of the base-One digits of      *)
(* v * One^9, lowest digit first; every digit but the highest is in         *)
(* 0 .. One - 1 and the highest carries the sign.                           *)

Zero == <<0, 0, 0, 0, 0, 0, 0, 0, 0, 0>>
\* a coordinate u of a point of the solver's search stands for u / Grain
Grain == One * One

\* carries propagated from the lowest digit up
Norm(d) ==
    LET a1 == d[1]
        a2 == d[2] + a1 \div One
        a3 == d[3] + a2 \div One
        a4 == d[4] + a3 \div One
        a5 == d[5] + a4 \div One
        a6 == d[6] + a5 \div One
        a7 == d[7] + a6 \div One
        a8 == d[8] + a7 \div One
        a9 == d[9] + a8 \div One
        a10 == d[10] + a9 \div One
    IN  <<a1 % One, a2 % One, a3 % One, a4 % One, a5 % One,
          a6 % One, a7 % One, a8 % One, a9 % One, a10>>

\* the real a float held as v stands for: v / One
Float(v) == Norm(<<0, 0, 0, 0, 0, 0, 0, 0, v, 0>>)
\* the real u / Grain + t / Grain^2: the coordinate u of a point of the
\* solver's search, moved by t of the finer units a line search goes down to
Finer(u, t) == Norm(<<0, 0, 0, 0, 0, t, 0, u, 0, 0>>)
\* the real at the coordinate u: u / Grain
Fine(u) == Finer(u, 0)
\* the coordinate at the float held as v
Point(v) == v * One
\* the float nearest to A
Held(A) == A[9] + One * A[10] + (IF 2 * A[8] >= One THEN 1 ELSE 0)
\* c1 * A + c2 * B for integers c1, c2
Lin(c1, A, c2, B) == Norm([i \in DOMAIN Zero |-> c1 * A[i] + c2 * B[i]])
\* the coordinate u moved by t, as <<u, t>> with 0 <= t < Grain
Carried(u, t) == <<u + t \div Grain, t % Grain>>
\* the five base-One digits of u / Grain + t / Grain^2, highest first
Digits(c) ==
    <<c[1] \div Grain, (c[1] \div One) % One, c[1] % One, c[2] \div One, c[2] % One>>
\* the square of the real of digits a, carries not yet propagated
SqOf(a) ==
    <<0,
      a[5] * a[5],
      2 * a[4] * a[5],
      2 * a[3] * a[5] + a[4] * a[4],
      2 * a[2] * a[5] + 2 * a[3] * a[4],
      2 * a[1] * a[5] + 2 * a[2] * a[4] + a[3] * a[3],
      2 * a[1] * a[4] + 2 * a[2] * a[3],
      2 * a[1] * a[3] + a[2] * a[2],
      2 * a[1] * a[2],
      a[1] * a[1]>>
\* (u / Grain)^2, carries not yet propagated
SqUnit(u) ==
    LET d0 == u % One
        d1 == (u \div One) % One
        d2 == u \div Grain
    IN  <<0, 0, 0, 0, 0,
          d0 * d0, 2 * d0 * d1, 2 * d0 * d2 + d1 * d1, 2 * d1 * d2, d2 * d2>>
\* (u / Grain + t / Grain^2)^2
Sq(u, t) == IF t = 0 THEN SqUnit(u) ELSE SqOf(Digits(Carried(u, t)))
\* A / One, exact for A a multiple of 1 / One^8
DivOne(A) == Norm(<<A[2], A[3], A[4], A[5], A[6], A[7], A[8], A[9], A[10], 0>>)
\* A < B: decided by the highest digit they differ in
Less(A, B) ==
    IF A[10] # B[10] THEN A[10] < B[10]
    ELSE IF A[9] # B[9] THEN A[9] < B[9]
    ELSE IF A[8] # B[8] THEN A[8] < B[8]
    ELSE IF A[7] # B[7] THEN A[7] < B[7]
    ELSE IF A[6] # B[6] THEN A[6] < B[6]
    ELSE IF A[5] # B[5] THEN A[5] < B[5]
    ELSE IF A[4] # B[4] THEN A[4] < B[4]
    ELSE IF A[3] # B[3] THEN A[3] < B[3]
    ELSE IF A[2] # B[2] THEN A[2] < B[2]
    ELSE A[1] < B[1]
\* a real above every value of an expression of the script
Top == <<0, 0, 0, 0, 0, 0, 0, 0, 0, Grain>>

-----------------------------------------------------------------------------
(* Expressions *)

VarRef(nm) == [t |-> "var", n |-> nm, v |-> 0]
ParamRef(nm) == [t |-> "param", n |-> nm, v |-> 0]
Num(k) == [t |-> "num", n |-> "-", v |-> k * One]
NoExpr == [t |-> "none", n |-> "-", v |-> 0]
\* f1 = 2*x**2 + y**2
f1_expr == [t |-> "f1_expr", n |-> "-", v |-> 0]
\* f2 = (x - 1)**2 + 2*(y - 1)**2
f2_expr == [t |-> "f2_expr", n |-> "-", v |-> 0]
\* alfa*f1 + (1 - alfa)*f2
weighted_expr == [t |-> "weighted", n |-> "-", v |-> 0]

\* the two coefficients of the weighted objective for a weight alfa
Coeffs(alfa) == <<alfa, One - alfa>>

\* the exact value of an expression over x, y and the parameters, at the
\* point (at.x, at.y) of the search, moved by (at.dx, at.dy) of the finer
\* units, and the floats at.env of the rest
Leaf(e, at) ==
    CASE e.t = "var" -> IF e.n = "x" THEN Finer(at.x, at.dx)
                        ELSE IF e.n = "y" THEN Finer(at.y, at.dy)
                        ELSE Float(at.env[e.n])
      [] e.t = "param" -> Float(at.env[e.n])
      [] e.t = "num" -> Float(e.v)
      [] e.t = "f1_expr" -> Lin(2, Sq(at.x, at.dx), 1, Sq(at.y, at.dy))
      [] e.t = "f2_expr" ->
            Lin(1, Sq(at.x - Point(One), at.dx), 2, Sq(at.y - Point(One), at.dy))
      [] OTHER -> Zero

\* the exact value of a variable: of the expression an equality constraint
\* ties it to, when there is one (ties: variable |-> expression)
Resolve(nm, at, ties) ==
    IF nm \in DOMAIN ties THEN Leaf(ties[nm], at) ELSE Leaf(VarRef(nm), at)

\* the exact value of an expression
Exact(e, at, ties) ==
    CASE e.t = "var" -> Resolve(e.n, at, ties)
      [] e.t = "weighted" ->
            DivOne(Lin(Coeffs(at.env["alfa"])[1], Resolve("f1", at, ties),
                       Coeffs(at.env["alfa"])[2], Resolve("f2", at, ties)))
      [] OTHER -> Leaf(e, at)

NoTies == [nm \in {} |-> NoExpr]
\* value(expression): the float nearest to the exact value
Eval(e, at) == Held(Exact(e, at, NoTies))

\* names an expression reads
Reads(e) ==
    CASE e.t = "var" -> {e.n}
      [] e.t = "param" -> {e.n}
      [] e.t = "f1_expr" -> {"x", "y"}
      [] e.t = "f2_expr" -> {"x", "y"}
      [] e.t = "weighted" -> {"alfa", "f1", "f2"}
      [] OTHER -> {}

-----------------------------------------------------------------------------
(* pyomo components *)

\* val is the value as a float; fine is the value of x or of y as the solver
\* loaded it, in units of 1 / One^2
Var(dom) == [kind |-> "Var", dom |-> dom, has |-> FALSE, val |-> 0, fine |-> 0,
             body |-> NoExpr, rel |-> "-", rhs |-> NoExpr, active |-> TRUE, id |-> 0]
Param(init) == [kind |-> "Param", dom |-> "-", has |-> TRUE, val |-> init, fine |-> 0,
                body |-> NoExpr, rel |-> "-", rhs |-> NoExpr, active |-> TRUE, id |-> 0]
Constraint(lhs, rel, rhs) ==
    [kind |-> "Constraint", dom |-> "-", has |-> FALSE, val |-> 0, fine |-> 0,
     body |-> lhs, rel |-> rel, rhs |-> rhs, active |-> TRUE, id |-> 0]
Objective(expr) == [kind |-> "Objective", dom |-> "-", has |-> FALSE, val |-> 0,
                    fine |-> 0, body |-> expr, rel |-> "minimize", rhs |-> NoExpr,
                    active |-> TRUE, id |-> 0]

EmptyModel == [nm \in {} |-> Var("Reals")]

OfKind(m, k) == {nm \in DOMAIN m : m[nm].kind = k}
ActiveObjectives(m) == {nm \in OfKind(m, "Objective") : m[nm].active}
\* current values of the variables and parameters of the model
Env(m) == [nm \in OfKind(m, "Var") \cup OfKind(m, "Param") |-> m[nm].val]
\* the point (x, y) the model holds
PointOf(m) == [nm \in {"x", "y"} |-> IF nm \in DOMAIN m THEN m[nm].fine ELSE 0]
\* the values an expression of the model is evaluated at
Vals(m) ==
    [env |-> Env(m), x |-> PointOf(m)["x"], dx |-> 0, y |-> PointOf(m)["y"], dy |-> 0]
HasValue(m, nm) == nm \in DOMAIN m /\ (m[nm].kind \in {"Var", "Param"} => m[nm].has)

\* value(component)
Value(m, nm) ==
    IF m[nm].kind \in {"Var", "Param"} THEN m[nm].val ELSE Eval(m[nm].body, Vals(m))
CanValue(m, nm) ==
    /\ nm \in DOMAIN m
    /\ IF m[nm].kind \in {"Var", "Param"} THEN m[nm].has
       ELSE \A r \in Reads(m[nm].body) : HasValue(m, r)

DomOK(dom, v) == IF dom = "NonNegativeReals" THEN v >= 0 ELSE TRUE
RelOK(l, rel, r) ==
    CASE rel = "<=" -> ~Less(r, l)
      [] rel = ">=" -> ~Less(l, r)
      [] rel = "==" -> l = r
      [] OTHER -> TRUE

-----------------------------------------------------------------------------
(* solver.solve(model) *)

\* the points of the solver's search, Grain to the unit: the range of x, of y
Pts == ((0 - 2 - Margin) * Grain) .. ((4 + Margin) * Grain)

\* the expression an active equality constraint ties the variable nm to
\* (model.f1 == f1_expr), NoExpr when there is none
TiedTo(m, nm) ==
    LET cs == {c \in OfKind(m, "Constraint") :
                  m[c].active /\ m[c].rel = "==" /\ m[c].body = VarRef(nm)}
    IN  IF cs = {} THEN NoExpr ELSE m[CHOOSE c \in cs : TRUE].rhs

\* the problem handed to the solver: values, domains, ties, the constraints
\* left once the tied variables are substituted, and the objective
Problem(m) ==
    LET tied == {nm \in OfKind(m, "Var") \ {"x", "y"} : TiedTo(m, nm) # NoExpr}
    IN  [env |-> Env(m),
         doms |-> [nm \in OfKind(m, "Var") \ tied |-> m[nm].dom],
         ties |-> [nm \in tied |-> TiedTo(m, nm)],
         cons |-> {m[c] : c \in {d \in OfKind(m, "Constraint") :
                      m[d].active /\ ~(m[d].rel = "==" /\ m[d].body.t = "var"
                                       /\ m[d].body.n \in tied)}},
         obj |-> IF ActiveObjectives(m) = {} THEN NoExpr
                 ELSE m[CHOOSE o \in ActiveObjectives(m) : TRUE].body]

\* a point of the search is <<x, dx, y, dy>>: the point (x, y), moved by
\* (dx, dy) of the finer units; the place of the variable nm in it
Axis(nm) == IF nm = "x" THEN 1 ELSE 3
Axes == {Axis("x"), Axis("y")}
Origin == <<0, 0, 0, 0>>
\* the values at the point p
At4(P, p) == [env |-> P.env, x |-> p[1], dx |-> p[2], y |-> p[3], dy |-> p[4]]
\* the values at the point (px, py)
At2(P, px, py) == At4(P, <<px, 0, py, 0>>)

\* the solution at the point (px, py): the point and the floats of the
\* variables; a tied variable takes its expression's value, any other
\* variable but x and y keeps its value
Candidate(P, px, py) ==
    LET xy == At2(P, px, py)
    IN  [x |-> px, y |-> py,
         vals |-> [nm \in DOMAIN P.env |->
                     IF nm \in DOMAIN P.ties \cup {"x", "y"}
                     THEN Held(Resolve(nm, xy, P.ties)) ELSE P.env[nm]]]

\* a point the model admits: variable domains and active constraints
Admits(P, px, py) ==
    LET xy == At2(P, px, py)
    IN  /\ \A nm \in DOMAIN P.doms :
              ~Less(Leaf(VarRef(nm), xy), Zero) \/ DomOK(P.doms[nm], 0 - 1)
        /\ \A c \in P.cons :
              RelOK(Exact(c.body, xy, P.ties), c.rel, Exact(c.rhs, xy, P.ties))

\* the points (x, y) the model admits
Feasible(m) == {p \in Pts \X Pts : Admits(Problem(m), p[1], p[2])}

\* a constraint that bounds one variable by a number (model.x <= 4)
IsBound(c, nm) == c.body = VarRef(nm) /\ c.rhs.t = "num"
\* the interval the domain of a variable and its bounds leave to it
Lower(P, nm) ==
    LET S == {(0 - 2 - Margin) * Grain}
                \cup (IF DomOK(P.doms[nm], 0 - 1) THEN {} ELSE {0})
                \cup {c.rhs.v * One : c \in {d \in P.cons : IsBound(d, nm) /\ d.rel \in {">=", "=="}}}
    IN  CHOOSE v \in S : \A w \in S : w <= v
Upper(P, nm) ==
    LET S == {(4 + Margin) * Grain}
                \cup {c.rhs.v * One : c \in {d \in P.cons : IsBound(d, nm) /\ d.rel \in {"<=", "=="}}}
    IN  CHOOSE v \in S : \A w \in S : v <= w

\* by how much l breaks the relation rel to r, 0 when it does not, given
\* d = l - r
Beyond(d, rel) ==
    IF Less(d, Zero) THEN IF rel \in {">=", "=="} THEN Lin(0 - 1, d, 0, d) ELSE Zero
    ELSE IF rel \in {"<=", "=="} THEN d ELSE Zero
Over(l, rel, r) == Beyond(Lin(1, l, 0 - 1, r), rel)
\* by how much a point breaks a constraint
Excess(c, xy, ties) == Over(Exact(c.body, xy, ties), c.rel, Exact(c.rhs, xy, ties))
Worst(S) == CHOOSE e \in S : \A f \in S \ {e} : ~Less(e, f)

\* the search space: the intervals of x and y, by the place of the variable
\* in a point, and the constraints that are not bounds of x or y
Space(P) ==
    [P |-> P,
     lo |-> [a \in Axes |-> Lower(P, IF a = Axis("x") THEN "x" ELSE "y")],
     hi |-> [a \in Axes |-> Upper(P, IF a = Axis("x") THEN "x" ELSE "y")],
     rest |-> {c \in P.cons : ~IsBound(c, "x") /\ ~IsBound(c, "y")}]

\* what the solver minimises at a point: first the worst excess, then the
\* active objective (sense=minimize)
KeyAt(S, at) ==
    <<Worst({Zero} \cup {Excess(c, at, S.P.ties) : c \in S.rest}),
      Exact(S.P.obj, at, S.P.ties)>>
Key(S, p) == KeyAt(S, At4(S.P, p))
Better(k1, k2) == Less(k1[1], k2[1]) \/ (k1[1] = k2[1] /\ Less(k1[2], k2[2]))
\* the key of a point outside the search space
TopKey == <<Top, Top>>

\* the coordinate c = <<unit, part below>> lies in the interval lo .. hi
Inside(lo, hi, c) == c[1] >= lo /\ (c[1] < hi \/ (c[1] = hi /\ c[2] = 0))
\* the point p lies in the search space
Within(S, p) ==
    \A a \in Axes : p[a + 1] <= Grain /\ Inside(S.lo[a], S.hi[a], Carried(p[a], p[a + 1]))
\* the point p as the search holds it: <<p, key>>
Keyed(S, p) == <<p, IF Within(S, p) THEN Key(S, p) ELSE TopKey>>

\* a point b = <<p, key>> at the place i of the line it is searched on
Placed(i, b) == <<i, b[2], b>>
\* the least of a set of tuples <<place, key, ...>>, of equal keys the one of
\* the lower place
Least(pairs) ==
    CHOOSE a \in pairs :
        \A b \in pairs : Better(a[2], b[2]) \/ (a[2] = b[2] /\ a[1] <= b[1])

\* two consecutive Fibonacci numbers <<a, b>>, a >= b, with a + b >= len
RECURSIVE Cover(_, _, _)
Cover(a, b, len) == IF a + b >= len THEN <<a, b>> ELSE Cover(a + b, a, len)

\* Fibonacci search for the least key on a line; on[i] is the point at the
\* place i of the line.  The state of the search is <<lo, a, b, P1, P2>>: the
\* places lo .. lo + a + b are left, and the places P1 = lo + b and
\* P2 = lo + a are probed.  A step drops the side beyond the worse of P1 and
\* P2 and probes the inner of the three parts left.  The objectives and
\* constraints of the script are convex, so the key falls to its one
\* minimiser along the line and rises after it, and the search ends on that
\* minimiser
Narrowed(on, st) ==
    IF ~Better(st[5][2], st[4][2])
    THEN <<st[1], st[3], st[2] - st[3], on[st[1] + st[2] - st[3]], st[4]>>
    ELSE <<st[1] + st[3], st[3], st[2] - st[3], st[5], on[st[1] + 2 * st[3]]>>
RECURSIVE Line(_, _)
Line(on, st) ==
    IF st[3] <= 1
    THEN Least({st[4], st[5], on[st[1]], on[st[1] + st[2] + st[3]]})
    ELSE Line(on, Narrowed(on, st))
\* the point <<p, key>> of least key of the places lo .. lo + f[1] + f[2]
Searching(on, lo, f) == Line(on, <<lo, f[1], f[2], on[lo + f[2]], on[lo + f[1]]>>)[3]
LeastOn(on, lo, hi) == Searching(on, lo, Cover(1, 0, hi - lo))

\* the line through the point p along the coordinate k of a point
Along(S, p, k) == [i \in Int |-> Placed(i, Keyed(S, [p EXCEPT ![k] = i]))]
\* the lowest the point p can be moved by along the axis a
Below(S, p, a) == IF p[a] = S.lo[a] THEN 0 ELSE 0 - Grain
\* the least key within a unit of the point p along the axis a
Refined(S, p, a) == LeastOn(Along(S, p, a + 1), Below(S, p, a), Grain)
\* the least key on the line through p along the axis a: first over the
\* points of the line, then between them.  It is the least over the reals to
\* 1 / Grain^2
Inner(S, p, a) == Refined(S, LeastOn(Along(S, p, a), S.lo[a], S.hi[a])[1], a)
\* the least key over the plane, searched along the axis a, each point of
\* that line taken with the least key along the other axis.  Eliminating
\* the other variable to 1 / Grain^2 leaves a function of one variable whose
\* minimiser on the line is the real one to the unit
Outer(S, a) ==
    LeastOn([q \in Int |->
                Placed(q, Inner(S, [Origin EXCEPT ![a] = q], Axis("x") + Axis("y") - a))],
            S.lo[a], S.hi[a])
\* the minimiser, each coordinate from the search along its axis:
\* <<<<p, key>> along x, <<p, key>> along y>>
Found(S) == <<Outer(S, Axis("x")), Outer(S, Axis("y"))>>

\* the solutions: the minimiser, loaded to the unit; none when no point is
\* left to search, and none when the minimiser breaks a constraint, the
\* model admitting no point then
Searched(P, S) ==
    IF \E a \in Axes : S.lo[a] > S.hi[a] THEN {}
    ELSE {Candidate(P, f[1][1][Axis("x")], f[2][1][Axis("y")]) :
            f \in {g \in {Found(S)} : g[1][2][1] = Zero}}
MinimisersOf(m, P) == Searched(P, Space(P))
Minimisers(m) == MinimisersOf(m, Problem(m))

\* the solution loaded back into the variables of the model
Load(m, a) ==
    [nm \in DOMAIN m |->
        IF m[nm].kind = "Var"
        THEN [m[nm] EXCEPT !.has = TRUE, !.val = a.vals[nm],
                           !.fine = IF nm = "x" THEN a.x ELSE IF nm = "y" THEN a.y ELSE 0]
        ELSE m[nm]]

\* the model after the solve that found the solutions sols
Loaded(m, sols) == IF sols = {} THEN {m} ELSE {Load(m, a) : a \in sols}

-----------------------------------------------------------------------------
(* numeric helpers *)

\* Python round(): to the nearest integer, a tie to the even one
PyRound(v) ==
    LET q == v \div One
        r == v % One
    IN  One * (IF 2 * r < One THEN q
               ELSE IF 2 * r > One THEN q + 1
               ELSE IF q % 2 = 0 THEN q ELSE q + 1)

\* line 181: f2_max, f2_min = round(f2_max), round(f2_min); as <<f2_min, f2_max>>
RoundPair(lo, hi) == <<PyRound(lo), PyRound(hi)>>
\* faulty variant: the pair is returned in the order it was read
OrderPairAsRead(lo, hi) == <<lo, hi>>

\* line 182: f2_min, f2_max = min(f2_min, f2_max), max(f2_min, f2_max)
OrderPair(lo, hi) == <<IF lo <= hi THEN lo ELSE hi, IF lo >= hi THEN lo ELSE hi>>

\* faulty variant: the stop value is included, as with an inclusive range
ArangeLenInclusive(start, stop, step) ==
    IF step > 0 /\ stop >= start THEN (stop - start) \div step + 1 ELSE 0

\* np.arange(start, stop, step): ceil((stop - start)/step) values start + k*step
ArangeLen(start, stop, step) ==
    IF step > 0 /\ stop > start THEN (stop - start + step - 1) \div step
    ELSE IF step < 0 /\ stop < start THEN (start - stop - step - 1) \div (0 - step)
    ELSE 0
Arange(start, stop, step) ==
    [k \in 1 .. ArangeLen(start, stop, step) |-> start + (k - 1) * step]

NoLists == [x_list |-> <<>>, y_list |-> <<>>, f1_list |-> <<>>, f2_list |-> <<>>]
\* faulty variant: the f2 value is appended to f1_list
AppendToWrongList(ls, which, v) ==
    [ls EXCEPT ![IF which = "f2_list" THEN "f1_list" ELSE which] = Append(@, v)]

AppendTo(ls, which, v) == [ls EXCEPT ![which] = Append(@, v)]

-----------------------------------------------------------------------------
(* The program: statement line |-> instruction *)

Skip == [op |-> "skip"]
Add(nm, comp) == [op |-> "add", name |-> nm, comp |-> comp]
Del(nm) == [op |-> "del", name |-> nm]
AppendValue(list, nm) == [op |-> "append", list |-> list, name |-> nm]
Call(fn, entry, target) == [op |-> "call", fn |-> fn, entry |-> entry, target |-> target]

\* lines 188-210 of __main__
MainSetup ==
    (188 :> Skip) @@ (189 :> Skip) @@ (190 :> Skip) @@
    (199 :> [op |-> "new"]) @@
    (201 :> Add("x", Var("NonNegativeReals"))) @@
    (202 :> Add("y", Var("NonNegativeReals"))) @@
    (204 :> Add("c1", Constraint(VarRef("x"), "<=", Num(4)))) @@
    (205 :> Add("c2", Constraint(VarRef("x"), ">=", Num(0 - 2)))) @@
    (206 :> Add("c3", Constraint(VarRef("y"), "<=", Num(4)))) @@
    (207 :> Add("c4", Constraint(VarRef("y"), ">=", Num(0 - 2)))) @@
    (209 :> Skip) @@ (210 :> Skip)

\* faulty variant: the two sweeps called in the other order
MainCallsSwapped ==
    (212 :> Call("get_pareto_min_max_values", 153, "f_rng")) @@
    (213 :> Call("weighted_sum", 121, "weighted_param")) @@
    (214 :> Call("epsilone_method", 11, "eps_param")) @@
    (215 :> [op |-> "plot"])

\* lines 212-215 of __main__
MainCalls ==
    (212 :> Call("get_pareto_min_max_values", 153, "f_rng")) @@
    (213 :> Call("epsilone_method", 11, "eps_param")) @@
    (214 :> Call("weighted_sum", 121, "weighted_param")) @@
    (215 :> [op |-> "plot"])

\* epsilone_method, lines 11-20
EpsSetup ==
    (11 :> Add("new_obj", Objective(f1_expr))) @@
    (12 :> Add("e", Param(0))) @@
    (13 :> Add("c_temp", Constraint(f2_expr, "<=", ParamRef("e")))) @@
    (16 :> [op |-> "assign", what |-> "n"]) @@
    (17 :> [op |-> "assign", what |-> "step"]) @@
    (18 :> [op |-> "arange", from |-> "f_rng", start |-> 0, stop |-> 0, step |-> 0]) @@
    (19 :> [op |-> "assign", what |-> "xy_lists"]) @@
    (20 :> [op |-> "assign", what |-> "f_lists"])

\* faulty variant: the solver called before the parameter is set
EpsLoopSolveFirst ==
    (22 :> [op |-> "for", exit |-> 32]) @@
    (23 :> [op |-> "solve"]) @@
    (24 :> [op |-> "setparam", name |-> "e"]) @@
    (25 :> AppendValue("x_list", "x")) @@
    (26 :> AppendValue("y_list", "y")) @@
    (27 :> AppendValue("f1_list", "new_obj")) @@
    (28 :> AppendValue("f2_list", "c_temp"))

\* epsilone_method, lines 22-28
EpsLoop ==
    (22 :> [op |-> "for", exit |-> 32]) @@
    (23 :> [op |-> "setparam", name |-> "e"]) @@
    (24 :> [op |-> "solve"]) @@
    (25 :> AppendValue("x_list", "x")) @@
    (26 :> AppendValue("y_list", "y")) @@
    (27 :> AppendValue("f1_list", "new_obj")) @@
    (28 :> AppendValue("f2_list", "c_temp"))

\* faulty variant: the parameter e is left on the model
EpsCleanupPartial ==
    (32 :> Del("c_temp")) @@ (33 :> Skip) @@ (34 :> Del("new_obj")) @@
    (35 :> [op |-> "return", val |-> "lists", title |-> "epsilon_method"])

\* epsilone_method, lines 32-35
EpsCleanup ==
    (32 :> Del("c_temp")) @@ (33 :> Del("e")) @@ (34 :> Del("new_obj")) @@
    (35 :> [op |-> "return", val |-> "lists", title |-> "epsilon_method"])

\* faulty variant: the weights run up to and including 1
WsSweepInclusive == [op |-> "arange", from |-> "const", start |-> 0, stop |-> One + 1, step |-> One \div 10]

\* weighted_sum, line 131: alfas = np.arange(0, 1, 0.1)
WsSweep == [op |-> "arange", from |-> "const", start |-> 0, stop |-> One, step |-> One \div 10]

\* weighted_sum, lines 121-131
WsSetup ==
    (121 :> Add("f1", Var("Reals"))) @@
    (122 :> Add("f2", Var("Reals"))) @@
    (123 :> Add("c_f1", Constraint(VarRef("f1"), "==", f1_expr))) @@
    (124 :> Add("c_f2", Constraint(VarRef("f2"), "==", f2_expr))) @@
    (127 :> [op |-> "assign", what |-> "xy_lists"]) @@
    (128 :> [op |-> "assign", what |-> "f_lists"]) @@
    (129 :> Add("alfa", Param(0))) @@
    (130 :> Add("f", Objective(weighted_expr))) @@
    (131 :> WsSweep)

\* weighted_sum, lines 132-138
WsLoop ==
    (132 :> [op |-> "for", exit |-> 142]) @@
    (133 :> [op |-> "setparam", name |-> "alfa"]) @@
    (134 :> [op |-> "solve"]) @@
    (135 :> AppendValue("x_list", "x")) @@
    (136 :> AppendValue("y_list", "y")) @@
    (137 :> AppendValue("f1_list", "f1")) @@
    (138 :> AppendValue("f2_list", "f2"))

\* weighted_sum, lines 142-149
WsCleanup ==
    (142 :> Del("f")) @@ (143 :> Del("alfa")) @@ (144 :> Del("f1")) @@
    (145 :> Del("f2")) @@ (146 :> Del("c_f1")) @@ (147 :> Del("c_f2")) @@
    (149 :> [op |-> "return", val |-> "lists", title |-> "Weight Sum"])

\* get_pareto_min_max_values, lines 153-158
GpSetup ==
    (153 :> Add("f1", Var("Reals"))) @@
    (154 :> Add("f2", Var("Reals"))) @@
    (155 :> Add("C_f1", Constraint(VarRef("f1"), "==", f1_expr))) @@
    (156 :> Add("C_f2", Constraint(VarRef("f2"), "==", f2_expr))) @@
    (157 :> Add("O_f1", Objective(VarRef("f1")))) @@
    (158 :> Add("O_f2", Objective(VarRef("f2"))))

\* get_pareto_min_max_values, lines 161-165
GpSolve1 ==
    (161 :> [op |-> "activate", name |-> "O_f1"]) @@
    (162 :> [op |-> "deactivate", name |-> "O_f2"]) @@
    (163 :> [op |-> "solve"]) @@
    (165 :> [op |-> "read", name |-> "f2", target |-> "f2_min"])

\* faulty variant: the objectives are not switched for the second solve
GpSolve2NotSwitched ==
    (168 :> [op |-> "activate", name |-> "O_f1"]) @@
    (169 :> [op |-> "deactivate", name |-> "O_f2"]) @@
    (170 :> Skip) @@
    (171 :> [op |-> "solve"]) @@
    (172 :> [op |-> "read", name |-> "f2", target |-> "f2_max"])

\* get_pareto_min_max_values, lines 168-172
GpSolve2 ==
    (168 :> [op |-> "activate", name |-> "O_f2"]) @@
    (169 :> [op |-> "deactivate", name |-> "O_f1"]) @@
    (170 :> Skip) @@
    (171 :> [op |-> "solve"]) @@
    (172 :> [op |-> "read", name |-> "f2", target |-> "f2_max"])

\* faulty variant: the variables f1 and f2 are left on the model
GpCleanupPartial ==
    (174 :> Del("C_f1")) @@ (175 :> Del("C_f2")) @@ (176 :> Del("O_f1")) @@
    (177 :> Del("O_f2")) @@ (178 :> Skip) @@ (179 :> Skip)

\* get_pareto_min_max_values, lines 174-179
GpCleanup ==
    (174 :> Del("C_f1")) @@ (175 :> Del("C_f2")) @@ (176 :> Del("O_f1")) @@
    (177 :> Del("O_f2")) @@ (178 :> Del("f2")) @@ (179 :> Del("f1"))

\* get_pareto_min_max_values, lines 181-183
GpRange ==
    (181 :> [op |-> "round"]) @@ (182 :> [op |-> "order"]) @@
    (183 :> [op |-> "return", val |-> "range", title |-> "-"])

Code ==
    EpsSetup @@ EpsLoop @@ EpsCleanup @@ WsSetup @@ WsLoop @@ WsCleanup @@
    GpSetup @@ GpSolve1 @@ GpSolve2 @@ GpCleanup @@ GpRange @@ MainSetup @@ MainCalls

Op(l) == IF l \in DOMAIN Code THEN Code[l].op ELSE "halt"
\* the statement after line l in the file
Succ(l) == CHOOSE k \in DOMAIN Code : k > l /\ \A j \in DOMAIN Code : j > l => k <= j
\* the loop head of the for statement that encloses line l
LoopHead(l) == CHOOSE h \in DOMAIN Code :
    /\ Code[h].op = "for" /\ h < l
    /\ \A g \in DOMAIN Code : (Code[g].op = "for" /\ g < l) => g <= h
\* the function a line belongs to (def lines 7, 118, 152, 185)
FnOf(l) ==
    IF l >= 185 THEN "__main__"
    ELSE IF l >= 152 THEN "get_pareto_min_max_values"
    ELSE IF l >= 118 THEN "weighted_sum"
    ELSE IF l >= 7 THEN "epsilone_method"
    ELSE "-"
\* the last statement of each for body (lines 28 and 138) goes back to its head
NextLine(l) ==
    IF Op(Succ(l)) # "for" /\ FnOf(l) # "__main__" /\ Op(l) = "append"
       /\ Code[l].list = "f2_list"
    THEN LoopHead(l) ELSE Succ(l)

-----------------------------------------------------------------------------
(* State *)

VARIABLES
    pc,              \* the line about to execute; 0 once the script has ended
    stack,           \* return lines of the calls in progress
    err,             \* "none", or the exception that ended the run
    model,           \* the pyomo model: component name |-> component
    nextId,          \* identity given to the next component created
    f2_min, f2_max,  \* locals of get_pareto_min_max_values
    f_rng,           \* <<f_min, f_max>> of __main__, <<>> before line 212 returns
    step, sweep,     \* step and epsilons (line 17, 18) / alfas (line 131)
    it, cur,         \* position of the for loop and its variable ep / alfa
    lists,           \* x_list, y_list, f1_list, f2_list of the running sweep
    eps_param,       \* <<result of epsilone_method>>, <<>> before line 213 returns
    weighted_param,  \* <<result of weighted_sum>>, <<>> before line 214 returns
    plotted,         \* the arguments plot was called with
    phases,          \* history: the phases entered, in order
    solves,          \* history: one record per solver.solve call
    reads            \* history: the values read at lines 165 and 172

vars == <<pc, stack, err, model, nextId, f2_min, f2_max, f_rng, step, sweep, it,
          cur, lists, eps_param, weighted_param, plotted, phases, solves, reads>>

frame == <<f2_min, f2_max, step, sweep, it, cur, lists>>
results == <<f_rng, eps_param, weighted_param, plotted>>
history == <<phases, solves, reads>>

Init ==
    /\ pc = 188
    /\ stack = <<>>
    /\ err = "none"
    /\ model = EmptyModel
    /\ nextId = 1
    /\ f2_min = 0 /\ f2_max = 0
    /\ f_rng = <<>>
    /\ step = 0 /\ sweep = <<>>
    /\ it = 0 /\ cur = 0
    /\ lists = NoLists
    /\ eps_param = <<>> /\ weighted_param = <<>>
    /\ plotted = <<>>
    /\ phases = <<"build">>
    /\ solves = <<>>
    /\ reads = <<>>

Running == err = "none" /\ pc \in DOMAIN Code
At(op) == Running /\ Code[pc].op = op

\* an uncaught exception ends the script where it is raised
Raise(what) == err' = what /\ UNCHANGED <<pc, stack, model, nextId, frame, results, history>>
Goto(l) == pc' = l /\ err' = err

-----------------------------------------------------------------------------
(* One action per kind of statement *)

\* lines 188-190, 209, 210, 170: statements that touch none of the state
SkipStep ==
    /\ At("skip")
    /\ Goto(Succ(pc))
    /\ UNCHANGED <<stack, model, nextId, frame, results, history>>

\* line 199: model = ConcreteModel()
NewModel ==
    /\ At("new")
    /\ model' = EmptyModel
    /\ Goto(Succ(pc))
    /\ UNCHANGED <<stack, nextId, frame, results, history>>

\* model.<name> = <component>: Block.__setattr__ adds it, after deleting a
\* component already held under that name
AddComponent ==
    /\ At("add")
    /\ model' = (Code[pc].name :> [Code[pc].comp EXCEPT !.id = nextId]) @@ model
    /\ nextId' = nextId + 1
    /\ Goto(Succ(pc))
    /\ UNCHANGED <<stack, frame, results, history>>

\* model.del_component(model.<name>)
DelComponent ==
    /\ At("del")
    /\ IF Code[pc].name \in DOMAIN model
       THEN /\ model' = [nm \in DOMAIN model \ {Code[pc].name} |-> model[nm]]
            /\ Goto(Succ(pc))
            /\ UNCHANGED <<stack, nextId, frame, results, history>>
       ELSE Raise("AttributeError")

\* model.<objective>.activate()
Activate ==
    /\ At("activate")
    /\ IF Code[pc].name \in DOMAIN model
       THEN /\ model' = [model EXCEPT ![Code[pc].name].active = TRUE]
            /\ Goto(Succ(pc))
            /\ UNCHANGED <<stack, nextId, frame, results, history>>
       ELSE Raise("AttributeError")

\* model.<objective>.deactivate()
Deactivate ==
    /\ At("deactivate")
    /\ IF Code[pc].name \in DOMAIN model
       THEN /\ model' = [model EXCEPT ![Code[pc].name].active = FALSE]
            /\ Goto(Succ(pc))
            /\ UNCHANGED <<stack, nextId, frame, results, history>>
       ELSE Raise("AttributeError")

\* solver.solve(model): the problem writer refuses a model that has not
\* exactly one active objective; an infeasible problem loads no solution.
\* A problem of the script that admits a point has one minimiser, so a solve
\* has one outcome; with e = 0 the constraint f2_expr <= e admits the point
\* (1, 1) alone, and that point is loaded
Solve ==
    /\ At("solve")
    /\ IF Cardinality(ActiveObjectives(model)) # 1
       THEN Raise("ValueError: objectives")
       ELSE /\ model' \in Loaded(model, Minimisers(model))
            /\ solves' = Append(solves,
                            [line |-> pc, objs |-> ActiveObjectives(model),
                             env |-> Env(model), vals |-> Env(model'),
                             pt |-> PointOf(model')])
            /\ Goto(Succ(pc))
            /\ UNCHANGED <<stack, nextId, frame, results, phases, reads>>

\* lines 165, 172: f2_min = value(model.f2) / f2_max = value(model.f2)
ReadValue ==
    /\ At("read")
    /\ IF CanValue(model, Code[pc].name)
       THEN /\ f2_min' = IF Code[pc].target = "f2_min"
                         THEN Value(model, Code[pc].name) ELSE f2_min
            /\ f2_max' = IF Code[pc].target = "f2_max"
                         THEN Value(model, Code[pc].name) ELSE f2_max
            /\ reads' = Append(reads, Value(model, Code[pc].name))
            /\ Goto(Succ(pc))
            /\ UNCHANGED <<stack, model, nextId, step, sweep, it, cur, lists,
                           results, phases, solves>>
       ELSE Raise("ValueError: no value")

\* line 181: f2_max, f2_min = round(f2_max), round(f2_min)
RoundStep ==
    /\ At("round")
    /\ f2_min' = RoundPair(f2_min, f2_max)[1]
    /\ f2_max' = RoundPair(f2_min, f2_max)[2]
    /\ Goto(Succ(pc))
    /\ UNCHANGED <<stack, model, nextId, step, sweep, it, cur, lists, results, history>>

\* line 182: f2_min, f2_max = min(f2_min, f2_max), max(f2_min, f2_max)
OrderStep ==
    /\ At("order")
    /\ f2_min' = OrderPair(f2_min, f2_max)[1]
    /\ f2_max' = OrderPair(f2_min, f2_max)[2]
    /\ Goto(Succ(pc))
    /\ UNCHANGED <<stack, model, nextId, step, sweep, it, cur, lists, results, history>>

\* lines 16, 17, 19, 20, 127, 128: assignments to locals
Assign ==
    /\ At("assign")
    /\ step' = IF Code[pc].what = "step" THEN (f_rng[2] - f_rng[1]) \div n ELSE step
    /\ lists' = CASE Code[pc].what = "xy_lists" ->
                       [lists EXCEPT !.x_list = <<>>, !.y_list = <<>>]
                  [] Code[pc].what = "f_lists" ->
                       [lists EXCEPT !.f1_list = <<>>, !.f2_list = <<>>]
                  [] OTHER -> lists
    /\ Goto(Succ(pc))
    /\ UNCHANGED <<stack, model, nextId, f2_min, f2_max, sweep, it, cur, results, history>>

\* lines 18, 131: np.arange; a zero step raises
ArangeStep ==
    /\ At("arange")
    /\ LET c == Code[pc]
           a == IF c.from = "f_rng" THEN f_rng[1] ELSE c.start
           b == IF c.from = "f_rng" THEN f_rng[2] ELSE c.stop
           s == IF c.from = "f_rng" THEN step ELSE c.step
       IN  IF s = 0 THEN Raise("ZeroDivisionError")
           ELSE /\ sweep' = Arange(a, b, s)
                /\ Goto(Succ(pc))
                /\ UNCHANGED <<stack, model, nextId, f2_min, f2_max, step, it, cur,
                               lists, results, history>>

\* lines 22, 132: for ep in epsilons / for alfa in alfas
ForStep ==
    /\ At("for")
    /\ IF it < Len(sweep)
       THEN it' = it + 1 /\ cur' = sweep[it + 1] /\ Goto(Succ(pc))
       ELSE it' = it /\ cur' = cur /\ Goto(Code[pc].exit)
    /\ UNCHANGED <<stack, model, nextId, f2_min, f2_max, step, sweep, lists,
                   results, history>>

\* lines 23, 133: model.e = ep / model.alfa = alfa sets the mutable parameter
SetParam ==
    /\ At("setparam")
    /\ IF Code[pc].name \in DOMAIN model
       THEN /\ model' = [model EXCEPT ![Code[pc].name].val = cur]
            /\ Goto(Succ(pc))
            /\ UNCHANGED <<stack, nextId, frame, results, history>>
       ELSE Raise("AttributeError")

\* lines 25-28, 135-138: <list>.append(value(model.<name>))
AppendStep ==
    /\ At("append")
    /\ IF CanValue(model, Code[pc].name)
       THEN /\ lists' = AppendTo(lists, Code[pc].list, Value(model, Code[pc].name))
            /\ Goto(NextLine(pc))
            /\ UNCHANGED <<stack, model, nextId, f2_min, f2_max, step, sweep, it,
                           cur, results, history>>
       ELSE Raise("ValueError: no value")

\* lines 212-214: call of a function of the script; its locals start unset
CallStep ==
    /\ At("call")
    /\ IF Code[pc].fn = "epsilone_method" /\ f_rng = <<>>
       THEN Raise("NameError")
       ELSE /\ stack' = <<pc>> \o stack
            /\ phases' = Append(phases, Code[pc].fn)
            /\ step' = 0 /\ sweep' = <<>> /\ it' = 0 /\ cur' = 0 /\ lists' = NoLists
            /\ Goto(Code[pc].entry)
            /\ UNCHANGED <<model, nextId, f2_min, f2_max, results, solves, reads>>

\* lines 35, 149, 183: return to the caller, which binds the value
ReturnStep ==
    /\ At("return")
    /\ LET target == Code[Head(stack)].target
           value == IF Code[pc].val = "range" THEN <<f2_min, f2_max>>
                    ELSE <<[X |-> lists.x_list, Y |-> lists.y_list,
                            F1 |-> lists.f1_list, F2 |-> lists.f2_list,
                            title |-> Code[pc].title]>>
       IN  /\ f_rng' = IF target = "f_rng" THEN value ELSE f_rng
           /\ eps_param' = IF target = "eps_param" THEN value ELSE eps_param
           /\ weighted_param' = IF target = "weighted_param" THEN value
                                ELSE weighted_param
    /\ stack' = Tail(stack)
    /\ Goto(Succ(Head(stack)))
    /\ UNCHANGED <<model, nextId, frame, plotted, history>>

\* line 215: plot(subplot1=eps_param, subplot2=weighted_param), then the end
PlotStep ==
    /\ At("plot")
    /\ IF eps_param = <<>> \/ weighted_param = <<>>
       THEN Raise("NameError")
       ELSE /\ plotted' = <<[subplot1 |-> eps_param[1], subplot2 |-> weighted_param[1]]>>
            /\ phases' = Append(phases, "plot")
            /\ Goto(0)
            /\ UNCHANGED <<stack, model, nextId, frame, f_rng, eps_param,
                           weighted_param, solves, reads>>

Next ==
    \/ SkipStep \/ NewModel \/ AddComponent \/ DelComponent
    \/ Activate \/ Deactivate \/ Solve \/ ReadValue
    \/ RoundStep \/ OrderStep \/ Assign \/ ArangeStep
    \/ ForStep \/ SetParam \/ AppendStep
    \/ CallStep \/ ReturnStep \/ PlotStep

Spec == Init /\ [][Next]_vars

-----------------------------------------------------------------------------
(* get_pareto_min_max_values from line 181 on, then epsilone_method, for   *)
(* any pair of solutions the two anchor solves may have loaded             *)

\* solutions (x, y) an anchor solve may have loaded: coordinates 0, 1/2, ...,
\* MaxAnchor/2; (0, 0) and (1, 1), the ones the two solves of lines 163 and
\* 171 give, are among them
AnchorPts ==
    LET side == {k * (One \div 2) : k \in 0 .. MaxAnchor} IN side \X side
\* the anchor solutions the epsilon sweep is followed from: the corners of
\* the unit square, where f2 reads 3, 2, 1 and 0
SweptPts == {0, One} \X {0, One}

\* the values of x, y, f1, f2 with the solution p loaded (C_f1, C_f2 hold)
AnchorVals(p) ==
    LET xy == [env |-> [nm \in {} |-> 0],
               x |-> Point(p[1]), dx |-> 0, y |-> Point(p[2]), dy |-> 0]
    IN  [nm \in {"x", "y", "f1", "f2"} |->
            CASE nm = "x" -> p[1]
              [] nm = "y" -> p[2]
              [] nm = "f1" -> Eval(f1_expr, xy)
              [] nm = "f2" -> Eval(f2_expr, xy)]

\* the solution p as the point the model holds
AnchorAt(p) == [nm \in {"x", "y"} |-> IF nm = "x" THEN Point(p[1]) ELSE Point(p[2])]

\* the model as lines 199-207 build it, x and y holding the solution p
BaseModel(p) ==
    [nm \in {"x", "y", "c1", "c2", "c3", "c4"} |->
        LET l == CHOOSE k \in DOMAIN MainSetup :
                    MainSetup[k].op = "add" /\ MainSetup[k].name = nm
            ord == Cardinality({k \in DOMAIN MainSetup :
                                   MainSetup[k].op = "add" /\ k <= l})
            c == [MainSetup[l].comp EXCEPT !.id = ord]
        IN  IF c.kind = "Var"
            THEN [c EXCEPT !.has = TRUE, !.val = AnchorVals(p)[nm],
                           !.fine = Point(AnchorVals(p)[nm])]
            ELSE c]

\* line 181 reached: the solves of lines 163 and 171 loaded the solutions p1
\* and p2, lines 165 and 172 read f2 after each, lines 174-179 deleted the
\* temporary components
AfterAnchors(p1, p2) ==
    /\ pc = 181
    /\ stack = <<212>>
    /\ err = "none"
    /\ model = BaseModel(p2)
    /\ nextId = 6 + Cardinality(DOMAIN GpSetup) + 1
    /\ f2_min = AnchorVals(p1)["f2"] /\ f2_max = AnchorVals(p2)["f2"]
    /\ f_rng = <<>>
    /\ step = 0 /\ sweep = <<>>
    /\ it = 0 /\ cur = 0
    /\ lists = NoLists
    /\ eps_param = <<>> /\ weighted_param = <<>>
    /\ plotted = <<>>
    /\ phases = <<"build", "get_pareto_min_max_values">>
    /\ solves = <<[line |-> 163, objs |-> {"O_f1"},
                   env |-> [nm \in {"x", "y", "f1", "f2"} |-> 0],
                   vals |-> AnchorVals(p1), pt |-> AnchorAt(p1)],
                  [line |-> 171, objs |-> {"O_f2"},
                   env |-> AnchorVals(p1), vals |-> AnchorVals(p2),
                   pt |-> AnchorAt(p2)]>>
    /\ reads = <<AnchorVals(p1)["f2"], AnchorVals(p2)["f2"]>>

InitAnchors == \E p1 \in AnchorPts, p2 \in AnchorPts : AfterAnchors(p1, p2)
\* the solve of line 171 minimises f2, so it reads f2 no higher than the
\* solve of line 163 did: the ranges returned are all of 0 <= f_min <= f_max <= 3
InitRange ==
    \E p1 \in SweptPts, p2 \in SweptPts :
        AnchorVals(p1)["f2"] >= AnchorVals(p2)["f2"] /\ AfterAnchors(p1, p2)

\* line 183: return f_min, f_max
ReturnRange == pc = 183 /\ ReturnStep

\* lines 181-183 for every pair of anchor solutions
NextAnchors == RoundStep \/ OrderStep \/ ReturnRange

SpecAnchors == InitAnchors /\ [][NextAnchors]_vars

\* line 213: eps_param = epsilone_method(model, f1, f2, solver, f_min, f_max)
CallEpsilone == pc = 213 /\ CallStep

NextRange ==
    \/ RoundStep \/ OrderStep \/ ReturnStep \/ CallEpsilone
    \/ AddComponent \/ Assign \/ ArangeStep \/ ForStep \/ SetParam
    \/ Solve \/ AppendStep \/ DelComponent

SpecRange == InitRange /\ [][NextRange]_vars

-----------------------------------------------------------------------------
(* Properties *)

Sweeps == {"epsilone_method", "weighted_sum"}
\* the solver calls made by the statements of one function, in order
SolvesOf(fn) == SelectSeq(solves, LAMBDA s : FnOf(s.line) = fn)
\* the values the solver call s left
Left(s) == [env |-> s.vals, x |-> s.pt["x"], dx |-> 0, y |-> s.pt["y"], dy |-> 0]
\* the mutable parameter of each sweep
SweepParam(fn) == IF fn = "epsilone_method" THEN "e" ELSE "alfa"
ListNames == {"x_list", "y_list", "f1_list", "f2_list"}
BaseNames == {"x", "y", "c1", "c2", "c3", "c4"}
PhaseOrder == <<"build", "get_pareto_min_max_values", "epsilone_method",
                "weighted_sum", "plot">>
Rank(fn) == CHOOSE k \in 1 .. Len(PhaseOrder) : PhaseOrder[k] = fn

\* C1: the phases run in the fixed order build, get_pareto_min_max_values,
\* epsilone_method, weighted_sum, plot, none skipped or repeated and none
\* ended by an exception; solver calls of the epsilon sweep are made only
\* with (f_min, f_max) known, those of the weight sweep only with the
\* epsilon sweep's result returned, and plot is called with both results.
C1_PhaseOrder ==
    /\ err = "none"
    /\ Len(phases) <= Len(PhaseOrder)
    /\ phases = SubSeq(PhaseOrder, 1, Len(phases))
    /\ pc = 0 => phases = PhaseOrder
    /\ \A k \in 1 .. Len(solves) :
          /\ FnOf(solves[k].line) = "epsilone_method" => f_rng # <<>>
          /\ FnOf(solves[k].line) = "weighted_sum" => eps_param # <<>>
          /\ \A j \in 1 .. k : Rank(FnOf(solves[j].line)) <= Rank(FnOf(solves[k].line))
    /\ FnOf(pc) = "epsilone_method" => f_rng # <<>> /\ eps_param = <<>>
    /\ FnOf(pc) = "weighted_sum" => eps_param # <<>> /\ weighted_param = <<>>
    /\ plotted # <<>> =>
          /\ eps_param # <<>> /\ weighted_param # <<>>
          /\ plotted[1].subplot1 = eps_param[1]
          /\ plotted[1].subplot2 = weighted_param[1]

C1_Witness ==
    /\ pc = 0 /\ phases = PhaseOrder /\ plotted # <<>>
    /\ Len(SolvesOf("epsilone_method")) > 0 /\ Len(SolvesOf("weighted_sum")) > 0

C3_AssignSolveRecord ==
    /\ FnOf(pc) \in Sweeps =>
          LET sol == SolvesOf(FnOf(pc))
          IN  /\ Len(sol) \in {it - 1, it} \cap Nat
              /\ \A k \in 1 .. Len(sol) :
                    /\ k <= Len(sweep)
                    /\ sol[k].env[SweepParam(FnOf(pc))] = sweep[k]
              /\ \A l \in ListNames : Len(lists[l]) <= Len(sol)
              /\ \A k \in 1 .. Len(lists.x_list) : lists.x_list[k] = sol[k].vals["x"]
              /\ \A k \in 1 .. Len(lists.y_list) : lists.y_list[k] = sol[k].vals["y"]
              /\ \A k \in 1 .. Len(lists.f1_list) :
                    lists.f1_list[k] = Eval(f1_expr, Left(sol[k]))
              /\ \A k \in 1 .. Len(lists.f2_list) :
                    lists.f2_list[k] = Eval(f2_expr, Left(sol[k]))
              /\ Op(pc) = "for" => Len(sol) = it /\ Len(lists.x_list) = it
              /\ Op(pc) = "return" => Len(sol) = Len(sweep) /\ Len(lists.x_list) = Len(sol)
    /\ eps_param # <<>> => Len(SolvesOf("epsilone_method")) = Len(eps_param[1].X)
    /\ weighted_param # <<>> => Len(SolvesOf("weighted_sum")) = Len(weighted_param[1].X)

C3_Witness ==
    /\ pc = 35 /\ Len(SolvesOf("epsilone_method")) = Len(sweep)
    /\ Len(sweep) > 1 /\ sweep[2] # sweep[1]
    /\ SolvesOf("epsilone_method")[2].env["e"] = sweep[2]

\* C4: get_pareto_min_max_values makes exactly two solver calls, the first
\* with O_f1 the only active objective, the second with O_f2 the only one;
\* the two readings are f2 as the first and as the second solve left it, and
\* the returned range is built from those two readings.
C4_TwoAnchorSolves ==
    LET sol == SolvesOf("get_pareto_min_max_values")
    IN  /\ Len(sol) <= 2
        /\ Len(reads) <= Len(sol)
        /\ Len(sol) >= 1 => sol[1].objs = {"O_f1"}
        /\ Len(sol) >= 2 => sol[2].objs = {"O_f2"}
        /\ \A k \in 1 .. Len(reads) : reads[k] = sol[k].vals["f2"]
        /\ (FnOf(pc) = "get_pareto_min_max_values" /\ pc > 172 /\ pc <= 181) =>
              /\ Len(sol) = 2 /\ Len(reads) = 2
              /\ f2_min = reads[1] /\ f2_max = reads[2]
        /\ f_rng # <<>> =>
              /\ Len(sol) = 2 /\ Len(reads) = 2
              /\ {f_rng[1], f_rng[2]} = {PyRound(reads[1]), PyRound(reads[2])}

C4_Witness ==
    /\ pc = 213 /\ f_rng # <<>>
    /\ Len(SolvesOf("get_pareto_min_max_values")) = 2
    /\ reads[1] # reads[2]

\* the points the feasible set is compared with the box at: Res to the
\* unit, to Margin steps beyond the box
GridStep == Grain \div Res
GridPts == {i * GridStep : i \in (0 - 2 * Res - Margin) .. (4 * Res + Margin)}
\* the box -2 <= x <= 4, -2 <= y <= 4, in the points of the search
Box == ((0 - 2) * Grain .. 4 * Grain) \X ((0 - 2) * Grain .. 4 * Grain)

\* C5: once the main script has built the model (line 212 reached), the
\* points the solver may return are exactly those of the box -2 <= x <= 4,
\* -2 <= y <= 4 (compared at the points of the first grid).
C5_BoxIsFeasibleSet ==
    (pc = 212 /\ BaseNames \subseteq DOMAIN model) =>
        \A p \in GridPts \X GridPts : p \in Feasible(model) <=> p \in Box

\* C6: for f_min < f_max epsilone_method sweeps exactly 10 epsilons, the
\* k-th (k = 0..9) being f_min + k*(f_max - f_min)/10: strictly increasing,
\* the first f_min, all below f_max; it makes 10 solver calls and returns
\* lists of length 10, and no exception ends it.  f_min and f_max are what
\* get_pareto_min_max_values returns, integers since line 181 rounds them:
\* every range 0 <= f_min < f_max <= 3 is swept.
C6_TenEpsilons ==
    /\ (FnOf(pc) = "epsilone_method" /\ pc > 18 /\ f_rng[1] < f_rng[2]) =>
          /\ Len(sweep) = 10
          /\ \A k \in 1 .. Len(sweep) :
                /\ 10 * sweep[k] = 10 * f_rng[1] + (k - 1) * (f_rng[2] - f_rng[1])
                /\ sweep[k] < f_rng[2]
                /\ k > 1 => sweep[k - 1] < sweep[k]
          /\ sweep[1] = f_rng[1]
          /\ \A k \in 1 .. Len(SolvesOf("epsilone_method")) :
                SolvesOf("epsilone_method")[k].env["e"] < f_rng[2]
          /\ pc = 35 => /\ Len(SolvesOf("epsilone_method")) = 10
                        /\ \A l \in ListNames : Len(lists[l]) = 10
    /\ (FnOf(pc) = "epsilone_method" /\ f_rng[1] < f_rng[2]) => err = "none"
    /\ eps_param # <<>> =>
          /\ f_rng[1] < f_rng[2]
          /\ Len(SolvesOf("epsilone_method")) = 10
          /\ Len(eps_param[1].X) = 10 /\ Len(eps_param[1].Y) = 10
          /\ Len(eps_param[1].F1) = 10 /\ Len(eps_param[1].F2) = 10

C6_Witness ==
    /\ pc = 35 /\ f_rng[1] > 0 /\ f_rng[1] < f_rng[2] /\ sweep[10] < f_rng[2]
    /\ Len(lists.f2_list) = 10 /\ Len(SolvesOf("epsilone_method")) = 10

\* C7: weighted_sum solves with alfa = 0, 0.1, ..., 0.9 in this order, the
\* objective f alone active; at every solve the coefficients alfa and
\* 1 - alfa are non-negative and sum to 1; the first solve has alfa = 0 and
\* coefficients (0, 1), so it returns the f2 value of the anchor solve that
\* minimised f2 alone; alfa = 1 is never solved.
C7_ConvexWeights ==
    LET sol == SolvesOf("weighted_sum")
    IN  /\ Len(sol) <= 10
        /\ \A k \in 1 .. Len(sol) :
              /\ sol[k].objs = {"f"}
              /\ 10 * sol[k].env["alfa"] = (k - 1) * One
              /\ sol[k].env["alfa"] # One
              /\ Coeffs(sol[k].env["alfa"])[1] >= 0
              /\ Coeffs(sol[k].env["alfa"])[2] >= 0
              /\ Coeffs(sol[k].env["alfa"])[1] + Coeffs(sol[k].env["alfa"])[2] = One
        /\ Len(sol) >= 1 =>
              /\ Coeffs(sol[1].env["alfa"]) = <<0, One>>
              /\ Len(SolvesOf("get_pareto_min_max_values")) = 2
              /\ sol[1].vals["f2"] = SolvesOf("get_pareto_min_max_values")[2].vals["f2"]
        /\ (FnOf(pc) = "weighted_sum" /\ pc > 131) =>
              /\ Len(sweep) = 10
              /\ \A k \in 1 .. Len(sweep) : 10 * sweep[k] = (k - 1) * One
        /\ weighted_param # <<>> => Len(sol) = 10

C7_Witness ==
    /\ pc = 149 /\ Len(SolvesOf("weighted_sum")) = 10
    /\ 10 * SolvesOf("weighted_sum")[10].env["alfa"] = 9 * One

\* v is an integer (a multiple of One) nearest to the reading r
NearestInt(v, r) == v % One = 0 /\ 2 * v - 2 * r <= One /\ 2 * r - 2 * v <= One

\* C8: the pair get_pareto_min_max_values returns is a pair of integers
\* f_min <= f_max: the smaller and the larger of the two f2 readings, each
\* rounded to a nearest integer, whichever solve gave the larger reading.
C8_OrderedIntegerRange ==
    \A pair \in (IF pc = 183 THEN {<<f2_min, f2_max>>} ELSE {})
                    \cup (IF f_rng # <<>> THEN {f_rng} ELSE {}) :
        /\ pair[1] <= pair[2]
        /\ pair[1] % One = 0 /\ pair[2] % One = 0
        /\ \/ NearestInt(pair[1], reads[1]) /\ NearestInt(pair[2], reads[2])
           \/ NearestInt(pair[1], reads[2]) /\ NearestInt(pair[2], reads[1])

C8_Witness ==
    /\ pc = 213 /\ f_rng # <<>> /\ f_rng[1] < f_rng[2]
    /\ reads[1] > reads[2] /\ reads[1] % One # 0

\* the part of a component that makes it the component it is
Identity(c) == <<c.kind, c.dom, c.body, c.rel, c.rhs, c.id>>

\* C9: when any of the three functions returns, the model holds exactly the
\* components it held on entry, x, y, c1, c2, c3, c4, and no objective; and
\* from line 212 on those six are never deleted or replaced.
C9_TemporariesDeleted ==
    /\ (Op(pc) = "return" \/ pc \in {213, 214, 215, 0}) =>
          /\ DOMAIN model = BaseNames
          /\ OfKind(model, "Objective") = {}
    /\ (pc = 0 \/ pc >= 212 \/ FnOf(pc) # "__main__") =>
          /\ BaseNames \subseteq DOMAIN model
          /\ \A nm \in BaseNames : Identity(model[nm]) = Identity(BaseModel(<<0, 0>>)[nm])

C9_Witness ==
    /\ pc = 215 /\ DOMAIN model = BaseNames
    /\ Len(solves) > 2 /\ nextId > Cardinality(BaseNames) + 1

\* C10: at every solver.solve call exactly one objective of the model is
\* active, and no statement adds a component under a name the model already
\* holds.
C10_OneObjectiveFreshNames ==
    /\ Op(pc) = "solve" => Cardinality(ActiveObjectives(model)) = 1
    /\ \A k \in 1 .. Len(solves) : Cardinality(solves[k].objs) = 1
    /\ Op(pc) = "add" => Code[pc].name \notin DOMAIN model
    /\ err = "none"

C10_Witness ==
    /\ pc = 121 /\ "f1" \notin DOMAIN model
    /\ Len(SolvesOf("get_pareto_min_max_values")) = 2
    /\ Len(SolvesOf("epsilone_method")) > 0
====
